---- MODULE Spec2Model ----
(***************************************************************************)
(* Model of data_pipeline/fetch_data.py: the BMRS + NESO energy pipeline   *)
(* (fetch_bmrs_fuelinst, fetch_neso_demand, merge_datasets,                *)
(* process_merged, fetch_pipeline).                                        *)
(*                                                                         *)
(* Time is counted in whole minutes since midnight UTC of day 0.  A       *)
(* DataFrame is a record [columns, rows]: a set of column names and a      *)
(* sequence of rows, each row a function from the column names to values.  *)
(* Power values (MW) are exact fixed-point numbers in units of 1/Scale MW, *)
(* so that the means of up to MaxSamples values and the rounding to two    *)
(* decimals are computed exactly.                                          *)
(***************************************************************************)
EXTENDS Integers, Sequences, FiniteSets, TLC

VARIABLES
    pc,            \* position of fetch_pipeline
    clock,         \* the wall clock, datetime.now(timezone.utc)
    hours,         \* the hours argument of the two fetch functions
    file,          \* data_pipeline/Data/combined_energy_data.csv
    file_before,   \* the content of that file when the run started
    fuelinst_df,   \* fetch_pipeline's fuelinst_df
    neso_df,       \* fetch_pipeline's neso_df
    pivoted,       \* merge_datasets' local pivoted
    merged,        \* fetch_pipeline's merged
    error,         \* the exception that ended the run, "none" if none
    bmrs_window,   \* start and now of fetch_bmrs_fuelinst
    neso_window    \* start and now of fetch_neso_demand

vars == <<pc, clock, hours, file, file_before, fuelinst_df, neso_df, pivoted,
          merged, error, bmrs_window, neso_window>>

----------------------------------------------------------------------------
(* Bounds of the model *)

\* most 5-minute samples of one fuel type within one settlement period
MaxSamples == 3
\* most minutes one remote request takes
MaxDelay == 1

(* Constants of the program *)

PipelineHours == 24
MinutesPerPeriod == 30
MinutesPerHour == 60
RoundDecimals == 2

MinutesPerDay == 24 * MinutesPerHour

RECURSIVE Factorial(_)
Factorial(n) == IF n <= 1 THEN 1 ELSE n * Factorial(n - 1)

RECURSIVE Pow10(_)
Pow10(n) == IF n = 0 THEN 1 ELSE 10 * Pow10(n - 1)

\* fixed-point units per MW: hundredths, times a common multiple of 1..MaxSamples
Scale == Pow10(RoundDecimals) * Factorial(MaxSamples)
MW(x) == x * Scale

----------------------------------------------------------------------------
(* Time *)

\* pd.to_datetime(date, utc=True): a date (its day number) as midnight UTC
ToDatetime(day) == day * MinutesPerDay

\* a variant of PeriodOffset that numbers the periods from 0
PeriodOffsetZeroBased(period) == period * MinutesPerPeriod

\* pd.to_timedelta((period - 1) * 30, unit="m")
PeriodOffset(period) == (period - 1) * MinutesPerPeriod

\* settlement date (already a datetime) + offset of the settlement period
TimestampOf(date, period) == date + PeriodOffset(period)

\* now - timedelta(hours=hours)
WindowStart(now, h) == now - h * MinutesPerHour

Window(now, h) == [start |-> WindowStart(now, h), now |-> now]

\* (df["timestamp"] >= start) & (df["timestamp"] <= now)
InWindow(t, w) == t >= w.start /\ t <= w.now

NoWindow == [start |-> -1, now |-> -1]

----------------------------------------------------------------------------
(* DataFrames *)

NoFrame == [columns |-> {}, rows |-> <<>>]

\* pd.DataFrame(data): the columns are the keys of the records
FrameFromRecords(body) ==
    [columns |-> UNION {DOMAIN body[i] : i \in DOMAIN body}, rows |-> body]

ColumnValues(df, c) == {df.rows[i][c] : i \in DOMAIN df.rows}

\* a variant of SelectColumns that keeps every column
KeepAllColumns(df, cols) == df

\* df.drop(columns=[c])
DropColumn(df, c) ==
    [columns |-> df.columns \ {c},
     rows |-> [i \in DOMAIN df.rows |->
                 [k \in df.columns \ {c} |-> df.rows[i][k]]]]

\* df[[c1, c2, ...]]
SelectColumns(df, cols) ==
    [columns |-> cols,
     rows |-> [i \in DOMAIN df.rows |-> [c \in cols |-> df.rows[i][c]]]]

\* df[(df["timestamp"] >= start) & (df["timestamp"] <= now)]
FilterWindow(df, w) ==
    [columns |-> df.columns,
     rows |-> SelectSeq(df.rows, LAMBDA r : InWindow(r.timestamp, w))]

\* df[c] = pd.to_datetime(df[c], utc=True)
ConvertDate(df, c) ==
    [columns |-> df.columns,
     rows |-> [i \in DOMAIN df.rows |->
                 [k \in df.columns |->
                     IF k = c THEN ToDatetime(df.rows[i][c]) ELSE df.rows[i][k]]]]

\* df["timestamp"] = df[date] + pd.to_timedelta((df[period] - 1) * 30, unit="m")
AddTimestamp(df, date, period) ==
    [columns |-> df.columns \cup {"timestamp"},
     rows |-> [i \in DOMAIN df.rows |->
                 [k \in df.columns \cup {"timestamp"} |->
                     IF k = "timestamp"
                     THEN TimestampOf(df.rows[i][date], df.rows[i][period])
                     ELSE df.rows[i][k]]]]

----------------------------------------------------------------------------
(* fetch_bmrs_fuelinst *)

fetch_bmrs_fuelinst(h, now, resp) ==
    IF resp.status = "http_error" THEN [error |-> "HTTPError", df |-> NoFrame]
    ELSE IF resp.status = "bad_json" THEN [error |-> "JSONDecodeError", df |-> NoFrame]
    ELSE
      LET df0 == FrameFromRecords(resp.body) IN
      IF ~({"settlementDate", "settlementPeriod"} \subseteq df0.columns)
      THEN [error |-> "KeyError", df |-> NoFrame]
      ELSE
        LET df1 == ConvertDate(df0, "settlementDate")
            df2 == AddTimestamp(df1, "settlementDate", "settlementPeriod")
        IN [error |-> "none", df |-> FilterWindow(df2, Window(now, h))]

----------------------------------------------------------------------------
(* fetch_neso_demand *)

NesoColumns ==
    {"SETTLEMENT_DATE", "SETTLEMENT_PERIOD",
     "EMBEDDED_WIND_GENERATION", "EMBEDDED_SOLAR_GENERATION"}

\* now is read after the download and the parsing
fetch_neso_demand(h, now, dl) ==
    IF dl.status = "error" THEN [error |-> "URLError", df |-> NoFrame]
    ELSE IF ~(NesoColumns \subseteq dl.csv.columns)
    THEN [error |-> "KeyError", df |-> NoFrame]
    ELSE
      LET df0 == SelectColumns(dl.csv, NesoColumns)
          df1 == ConvertDate(df0, "SETTLEMENT_DATE")
          df2 == AddTimestamp(df1, "SETTLEMENT_DATE", "SETTLEMENT_PERIOD")
      IN [error |-> "none", df |-> FilterWindow(df2, Window(now, h))]

----------------------------------------------------------------------------
(* merge_datasets *)

Timestamps(df) == ColumnValues(df, "timestamp")

RECURSIVE SortedSeq(_)
\* the elements of a finite set of integers in ascending order
SortedSeq(S) ==
    IF S = {} THEN <<>>
    ELSE LET m == CHOOSE x \in S : \A y \in S : x <= y
         IN <<m>> \o SortedSeq(S \ {m})

RECURSIVE SumOver(_, _, _)
\* the sum of column c over the rows whose indexes are in idx
SumOver(df, c, idx) ==
    IF idx = {} THEN 0
    ELSE LET i == CHOOSE x \in idx : TRUE
         IN df.rows[i][c] + SumOver(df, c, idx \ {i})

\* the rows of one timestamp and one fuel type
GroupRows(df, t, f) ==
    {i \in DOMAIN df.rows : df.rows[i].timestamp = t /\ df.rows[i].fuelType = f}

\* aggfunc="mean"
Mean(df, c, idx) == SumOver(df, c, idx) \div Cardinality(idx)

\* a variant of PivotCell with aggfunc="sum"
PivotCellSum(df, t, f) == SumOver(df, "generation", GroupRows(df, t, f))

\* one cell of the pivot table: the mean of the group, fill_value=0 for no group
PivotCell(df, t, f) ==
    LET idx == GroupRows(df, t, f)
    IN IF idx = {} THEN 0 ELSE Mean(df, "generation", idx)

\* pivot_table(index="timestamp", columns="fuelType", values="generation",
\*             aggfunc="mean", fill_value=0).reset_index()
PivotTable(df) ==
    LET ts    == SortedSeq(Timestamps(df))
        fuels == ColumnValues(df, "fuelType")
        cols  == {"timestamp"} \cup fuels
    IN [columns |-> cols,
        rows |-> [i \in DOMAIN ts |->
                    [c \in cols |-> IF c = "timestamp" THEN ts[i]
                                    ELSE PivotCell(df, ts[i], c)]]]

RECURSIVE JoinRows(_, _, _)
\* the rows of the inner join, from the i-th left row on
JoinRows(l, r, i) ==
    IF i > Len(l) THEN <<>>
    ELSE LET hit == SelectSeq(r, LAMBDA x : x.timestamp = l[i].timestamp)
         IN [k \in DOMAIN hit |-> l[i] @@ hit[k]] \o JoinRows(l, r, i + 1)

RECURSIVE JoinRowsLeft(_, _, _)
\* the rows of a left join: a left row without a match is kept, zero-filled
JoinRowsLeft(l, r, i) ==
    IF i > Len(l) THEN <<>>
    ELSE LET hit == SelectSeq(r, LAMBDA x : x.timestamp = l[i].timestamp)
             pad == [c \in UNION {DOMAIN r[k] : k \in DOMAIN r} |-> 0]
         IN (IF hit = <<>> THEN <<l[i] @@ pad>>
             ELSE [k \in DOMAIN hit |-> l[i] @@ hit[k]]) \o JoinRowsLeft(l, r, i + 1)

\* a variant of InnerMerge with how="left"
LeftMerge(left, right) ==
    [columns |-> left.columns \cup right.columns,
     rows |-> JoinRowsLeft(left.rows, right.rows, 1)]

\* pd.merge(left, right, on="timestamp", how="inner")
InnerMerge(left, right) ==
    [columns |-> left.columns \cup right.columns,
     rows |-> JoinRows(left.rows, right.rows, 1)]

merge_datasets(bmrs, neso) == InnerMerge(PivotTable(bmrs), neso)

----------------------------------------------------------------------------
(* process_merged *)

\* the source columns in the order process_merged reads them
SourceColumns ==
    <<"WIND", "EMBEDDED_WIND_GENERATION", "CCGT", "OCGT",
      "EMBEDDED_SOLAR_GENERATION", "NPSHYD", "COAL", "OIL", "BIOMASS", "NUCLEAR">>

RequiredColumns == {SourceColumns[i] : i \in DOMAIN SourceColumns}

AggregateColumns ==
    {"TOTAL_WIND", "TOTAL_GAS", "TOTAL_RENEWABLE", "TOTAL_FOSSIL_FUELS",
     "TOTAL_LOW_CARBON"}

\* columns round() leaves alone: the datetimes and the integer period
NonFloatColumns == {"timestamp", "SETTLEMENT_DATE", "SETTLEMENT_PERIOD"}

\* one hundredth, in fixed-point units
Cent == Scale \div Pow10(RoundDecimals)

\* round(2): to the nearest hundredth, a tie to the even hundredth
Round2(v) ==
    LET q == v \div Cent
        r == v % Cent
    IN IF 2 * r < Cent THEN q * Cent
       ELSE IF 2 * r > Cent THEN (q + 1) * Cent
       ELSE IF q % 2 = 0 THEN q * Cent ELSE (q + 1) * Cent

TotalWind(r) == r.WIND + r.EMBEDDED_WIND_GENERATION
TotalGas(r) == r.CCGT + r.OCGT
\* a variant of TotalRenewable that leaves the hydro generation out
TotalRenewableNoHydro(r) == TotalWind(r) + r.EMBEDDED_SOLAR_GENERATION
TotalRenewable(r) == TotalWind(r) + r.EMBEDDED_SOLAR_GENERATION + r.NPSHYD
TotalFossilFuels(r) == TotalGas(r) + r.COAL + r.OIL
TotalLowCarbon(r) == TotalRenewable(r) + r.BIOMASS + r.NUCLEAR

\* the row with its five aggregates, before the rounding
AggregatedRow(r) ==
    [c \in DOMAIN r \cup AggregateColumns |->
        CASE c = "TOTAL_WIND" -> TotalWind(r)
          [] c = "TOTAL_GAS" -> TotalGas(r)
          [] c = "TOTAL_RENEWABLE" -> TotalRenewable(r)
          [] c = "TOTAL_FOSSIL_FUELS" -> TotalFossilFuels(r)
          [] c = "TOTAL_LOW_CARBON" -> TotalLowCarbon(r)
          [] OTHER -> r[c]]

RoundedRow(r) ==
    [c \in DOMAIN r |-> IF c \in NonFloatColumns THEN r[c] ELSE Round2(r[c])]

\* the source columns that merged[...] does not find, in the order of the reads
MissingColumns(df) ==
    SelectSeq(SourceColumns, LAMBDA c : c \notin df.columns)

\* a variant of process_merged that reads an absent source column as 0
process_merged_lenient(df) ==
    [error |-> "none", key |-> "",
     df |-> [columns |-> df.columns \cup AggregateColumns,
             rows |-> [i \in DOMAIN df.rows |->
                         RoundedRow(AggregatedRow(
                             df.rows[i] @@ [c \in RequiredColumns |-> 0]))]]]

process_merged(df) ==
    IF MissingColumns(df) # <<>>
    THEN [error |-> "KeyError", key |-> Head(MissingColumns(df)), df |-> NoFrame]
    ELSE [error |-> "none", key |-> "",
          df |-> [columns |-> df.columns \cup AggregateColumns,
                  rows |-> [i \in DOMAIN df.rows |->
                              RoundedRow(AggregatedRow(df.rows[i]))]]]

----------------------------------------------------------------------------
(* What the two remote sources may return *)

\* settlement periods <<day, period>>: the first two periods of day 1, the last
\* of day 0 (on the lower edge of a 24 h window) and the last of day 1 (on its
\* upper edge)
SlotSeq == <<(<<1, 1>>), (<<1, 2>>), (<<0, 48>>), (<<1, 48>>)>>
AllSlots == {SlotSeq[i] : i \in DOMAIN SlotSeq}

FuelSeq ==
    <<"WIND", "CCGT", "OCGT", "COAL", "OIL", "NPSHYD", "BIOMASS", "NUCLEAR", "INTFR">>
AllFuels == {FuelSeq[i] : i \in DOMAIN FuelSeq}
RequiredFuels == AllFuels \ {"INTFR"}

\* generation of a fuel type in the first period, MW
BaseGen(f) ==
    CASE f = "WIND" -> 100 [] f = "CCGT" -> 200 [] f = "OCGT" -> 50
      [] f = "COAL" -> 10 [] f = "OIL" -> 5 [] f = "NPSHYD" -> 2
      [] f = "BIOMASS" -> 3 [] f = "NUCLEAR" -> 400 [] OTHER -> 7

\* the k-th of n samples of fuel f in the s-th period: the last of several
\* samples is 1 MW higher, so that the mean is not any one sample
SampleGen(f, s, k, n) ==
    MW(BaseGen(f) + (s - 1) + (IF n > 1 /\ k = n THEN 1 ELSE 0))

\* every period, every fuel type, n samples each
FullBody(n) ==
    LET nf == Len(FuelSeq) IN
    [i \in 1..(Len(SlotSeq) * nf * n) |->
        LET s == ((i - 1) \div (nf * n)) + 1
            f == (((i - 1) \div n) % nf) + 1
            k == ((i - 1) % n) + 1
        IN [settlementDate |-> SlotSeq[s][1],
            settlementPeriod |-> SlotSeq[s][2],
            fuelType |-> FuelSeq[f],
            generation |-> SampleGen(FuelSeq[f], s, k, n)]]

\* the fuel type and period of the rows a response may lack
HoleFuel == "OIL"
HoleSlot == <<1, 1>>

\* the JSON array with the given periods and fuel types, n samples each,
\* without the rows of HoleFuel in HoleSlot when hole is set
BmrsBody(slots, fuels, n, hole) ==
    SelectSeq(FullBody(n),
              LAMBDA r : /\ <<r.settlementDate, r.settlementPeriod>> \in slots
                         /\ r.fuelType \in fuels
                         /\ ~(/\ hole
                              /\ r.fuelType = HoleFuel
                              /\ <<r.settlementDate, r.settlementPeriod>> = HoleSlot))

BmrsSlotSets == {{}, {<<1, 1>>}, {<<1, 1>>, <<1, 2>>, <<0, 48>>}, AllSlots}

BmrsBodies ==
    {BmrsBody(slots, fuels, n, hole) :
        slots \in BmrsSlotSets, fuels \in {RequiredFuels, AllFuels},
        n \in 1..MaxSamples, hole \in BOOLEAN}
    \cup {BmrsBody(AllSlots, RequiredFuels \ {f}, 1, FALSE) : f \in RequiredFuels}

BmrsResponses ==
    {[status |-> "http_error", body |-> <<>>], [status |-> "bad_json", body |-> <<>>]}
    \cup {[status |-> "ok", body |-> b] : b \in BmrsBodies}

CsvColumns == NesoColumns \cup {"ND"}

\* the CSV row of the s-th period
CsvRow(s, bump) ==
    [c \in CsvColumns |->
        CASE c = "SETTLEMENT_DATE" -> SlotSeq[s][1]
          [] c = "SETTLEMENT_PERIOD" -> SlotSeq[s][2]
          [] c = "EMBEDDED_WIND_GENERATION" -> MW(20 + (s - 1) + bump)
          [] c = "EMBEDDED_SOLAR_GENERATION" -> MW(15 + (s - 1) + bump)
          [] OTHER -> MW(30000)]

\* the period a CSV may hold two rows of
DupSlot == <<1, 2>>
SlotIndex(slot) == CHOOSE i \in DOMAIN SlotSeq : SlotSeq[i] = slot

\* the CSV with one row for each of the given periods, and a second row for
\* the period DupSlot when dup is set
NesoCsv(slots, dup) ==
    LET idx  == SelectSeq([i \in DOMAIN SlotSeq |-> i], LAMBDA i : SlotSeq[i] \in slots)
        rows == [k \in DOMAIN idx |-> CsvRow(idx[k], 0)]
    IN [columns |-> CsvColumns,
        rows |-> IF dup /\ DupSlot \in slots
                 THEN Append(rows, CsvRow(SlotIndex(DupSlot), 1)) ELSE rows]

NesoSlotSets ==
    {{}, {<<1, 2>>}, {<<0, 48>>}, {<<1, 48>>}, {<<1, 1>>, <<1, 2>>, <<0, 48>>},
     {<<1, 1>>, <<1, 2>>, <<1, 48>>}, AllSlots}

NesoCsvs ==
    {NesoCsv(slots, dup) : slots \in NesoSlotSets, dup \in BOOLEAN}
    \cup {DropColumn(NesoCsv(AllSlots, FALSE), "EMBEDDED_SOLAR_GENERATION")}

NesoDownloads ==
    {[status |-> "error", csv |-> NoFrame]}
    \cup {[status |-> "ok", csv |-> c] : c \in NesoCsvs}

\* the output file: absent, or the table a former run wrote
Absent == [exists |-> FALSE]
FileOf(df) == [exists |-> TRUE, columns |-> df.columns, rows |-> df.rows]
OldFile == FileOf([columns |-> {"timestamp"}, rows |-> <<[timestamp |-> 0]>>])

Delays == 0..MaxDelay

\* the clock when a run starts: the last period of day 1 begins, or is about to
StartClocks ==
    {TimestampOf(ToDatetime(1), 48) - 1, TimestampOf(ToDatetime(1), 48)}

----------------------------------------------------------------------------
(* fetch_pipeline *)

Init ==
    /\ pc = "fetch_bmrs"
    /\ clock \in StartClocks
    /\ hours = PipelineHours
    /\ file \in {Absent, OldFile}
    /\ file_before = file
    /\ fuelinst_df = NoFrame
    /\ neso_df = NoFrame
    /\ pivoted = NoFrame
    /\ merged = NoFrame
    /\ error = "none"
    /\ bmrs_window = NoWindow
    /\ neso_window = NoWindow

\* a variant of Raise for a run that opens the output file before its work
RaiseAfterOpen(e) ==
    /\ pc' = "failed"
    /\ error' = e
    /\ file' = FileOf(NoFrame)

\* an exception leaves fetch_pipeline: nothing of the run is kept
Raise(e) ==
    /\ pc' = "failed"
    /\ error' = e
    /\ file' = file

\* fuelinst_df = fetch_bmrs_fuelinst(24); now is read before the request
FetchBmrs ==
    /\ pc = "fetch_bmrs"
    /\ \E resp \in BmrsResponses, d \in Delays :
         LET out == fetch_bmrs_fuelinst(hours, clock, resp) IN
         /\ clock' = clock + d
         /\ bmrs_window' = Window(clock, hours)
         /\ IF out.error # "none"
            THEN Raise(out.error) /\ UNCHANGED fuelinst_df
            ELSE /\ fuelinst_df' = out.df
                 /\ pc' = "fetch_neso"
                 /\ UNCHANGED <<error, file>>
    /\ UNCHANGED <<hours, file_before, neso_df, pivoted, merged, neso_window>>

\* neso_df = fetch_neso_demand(24); now is read after the download
FetchNeso ==
    /\ pc = "fetch_neso"
    /\ \E dl \in NesoDownloads, d \in Delays :
         LET out == fetch_neso_demand(hours, clock + d, dl) IN
         /\ clock' = clock + d
         /\ IF out.error # "none"
            THEN Raise(out.error) /\ UNCHANGED <<neso_df, neso_window>>
            ELSE /\ neso_df' = out.df
                 /\ neso_window' = Window(clock + d, hours)
                 /\ pc' = "merge"
                 /\ UNCHANGED <<error, file>>
    /\ UNCHANGED <<hours, file_before, fuelinst_df, pivoted, merged, bmrs_window>>

\* merged = merge_datasets(fuelinst_df, neso_df)
MergeStep ==
    /\ pc = "merge"
    /\ pivoted' = PivotTable(fuelinst_df)
    /\ merged' = merge_datasets(fuelinst_df, neso_df)
    /\ pc' = "process"
    /\ UNCHANGED <<clock, hours, file, file_before, fuelinst_df, neso_df, error,
                   bmrs_window, neso_window>>

\* merged = process_merged(merged)
ProcessStep ==
    /\ pc = "process"
    /\ LET out == process_merged(merged) IN
         IF out.error # "none"
         THEN Raise(out.error) /\ UNCHANGED merged
         ELSE /\ merged' = out.df
              /\ pc' = "write"
              /\ UNCHANGED <<error, file>>
    /\ UNCHANGED <<clock, hours, file_before, fuelinst_df, neso_df, pivoted,
                   bmrs_window, neso_window>>

\* merged.to_csv(path, index=False)
WriteStep ==
    /\ pc = "write"
    /\ file' = FileOf(merged)
    /\ pc' = "done"
    /\ UNCHANGED <<clock, hours, file_before, fuelinst_df, neso_df, pivoted, merged,
                   error, bmrs_window, neso_window>>

Next == FetchBmrs \/ FetchNeso \/ MergeStep \/ ProcessStep \/ WriteStep

Spec == Init /\ [][Next]_vars

----------------------------------------------------------------------------
(* The two fetch functions called with any number of hours *)

HoursInputs == {0, 1, PipelineHours}

InitFetch ==
    /\ pc = "fetch_bmrs"
    /\ clock \in StartClocks
    /\ hours \in HoursInputs
    /\ file \in {Absent, OldFile}
    /\ file_before = file
    /\ fuelinst_df = NoFrame
    /\ neso_df = NoFrame
    /\ pivoted = NoFrame
    /\ merged = NoFrame
    /\ error = "none"
    /\ bmrs_window = NoWindow
    /\ neso_window = NoWindow

NextFetch == FetchBmrs \/ FetchNeso

SpecFetch == InitFetch /\ [][NextFetch]_vars

----------------------------------------------------------------------------
(* Properties *)

Ran == {"process", "write", "done"}

\* o is v rounded to two decimals: a whole number of hundredths, nearest to v
IsRoundOf(o, v) ==
    /\ o % Cent = 0
    /\ 2 * (o - v) <= Cent
    /\ 2 * (v - o) <= Cent

\* the demand table has one row per settlement period
OneRowPerPeriod(df) ==
    \A i, j \in DOMAIN df.rows :
        df.rows[i].timestamp = df.rows[j].timestamp => i = j

\* C1: a run that has not completed its write has left the output file as it
\* was when the run started (absent stays absent); a run that failed did so with
\* an exception; and after the write the file holds the whole processed table.
C1_FailureLeavesFile ==
    /\ pc # "done" => file = file_before
    /\ pc = "failed" => error # "none" /\ file = file_before
    /\ pc = "done" => error = "none" /\ file = FileOf(merged)

\* a run that failed in process_merged, after both fetches and the merge, with a
\* former output file in place
C1_Witness ==
    /\ pc = "failed"
    /\ merged # NoFrame
    /\ merged.rows # <<>>
    /\ file_before = OldFile
    /\ file = OldFile

\* C2: process_merged, given a table with all ten source columns, returns a
\* table whose rows carry TOTAL_WIND = WIND + EMBEDDED_WIND_GENERATION,
\* TOTAL_GAS = CCGT + OCGT, TOTAL_RENEWABLE = TOTAL_WIND +
\* EMBEDDED_SOLAR_GENERATION + NPSHYD, TOTAL_FOSSIL_FUELS = TOTAL_GAS + COAL + OIL
\* and TOTAL_LOW_CARBON = TOTAL_RENEWABLE + BIOMASS + NUCLEAR, computed from the
\* values of the given row and then rounded to two decimals; the row of the
\* example gives 120, 250, 137, 265 and 540.
C2_Aggregates ==
    [][(pc = "process" /\ RequiredColumns \subseteq merged.columns) =>
        /\ pc' = "write"
        /\ Len(merged'.rows) = Len(merged.rows)
        /\ \A i \in DOMAIN merged.rows :
             LET r    == merged.rows[i]
                 o    == merged'.rows[i]
                 wind == r.WIND + r.EMBEDDED_WIND_GENERATION
                 gas  == r.CCGT + r.OCGT
                 ren  == wind + r.EMBEDDED_SOLAR_GENERATION + r.NPSHYD
                 fos  == gas + r.COAL + r.OIL
                 low  == ren + r.BIOMASS + r.NUCLEAR
             IN /\ o.timestamp = r.timestamp
                /\ IsRoundOf(o.TOTAL_WIND, wind)
                /\ IsRoundOf(o.TOTAL_GAS, gas)
                /\ IsRoundOf(o.TOTAL_RENEWABLE, ren)
                /\ IsRoundOf(o.TOTAL_FOSSIL_FUELS, fos)
                /\ IsRoundOf(o.TOTAL_LOW_CARBON, low)
                /\ (/\ r.WIND = MW(100) /\ r.CCGT = MW(200) /\ r.OCGT = MW(50)
                    /\ r.COAL = MW(10) /\ r.OIL = MW(5) /\ r.NPSHYD = MW(2)
                    /\ r.BIOMASS = MW(3) /\ r.NUCLEAR = MW(400)
                    /\ r.EMBEDDED_WIND_GENERATION = MW(20)
                    /\ r.EMBEDDED_SOLAR_GENERATION = MW(15))
                   => /\ o.TOTAL_WIND = MW(120)
                      /\ o.TOTAL_GAS = MW(250)
                      /\ o.TOTAL_RENEWABLE = MW(137)
                      /\ o.TOTAL_FOSSIL_FUELS = MW(265)
                      /\ o.TOTAL_LOW_CARBON = MW(540)
    ]_vars

\* process_merged has returned a table that holds the row of the example
C2_Witness ==
    /\ pc = "write"
    /\ \E i \in DOMAIN merged.rows :
         LET o == merged.rows[i] IN
         /\ o.WIND = MW(100) /\ o.CCGT = MW(200) /\ o.OCGT = MW(50)
         /\ o.COAL = MW(10) /\ o.OIL = MW(5) /\ o.NPSHYD = MW(2)
         /\ o.BIOMASS = MW(3) /\ o.NUCLEAR = MW(400)
         /\ o.EMBEDDED_WIND_GENERATION = MW(20)
         /\ o.EMBEDDED_SOLAR_GENERATION = MW(15)
         /\ o.TOTAL_LOW_CARBON = MW(540)

\* C3: when the demand table has one row per settlement period, the table
\* merge_datasets returns has exactly one row for each timestamp that is in the
\* pivoted fuel table and in the demand table, and no other row.
C3_InnerJoin ==
    (pc = "process" /\ OneRowPerPeriod(neso_df)) =>
        /\ Timestamps(merged) = Timestamps(pivoted) \cap Timestamps(neso_df)
        /\ Len(merged.rows) = Cardinality(Timestamps(merged))

\* a merge of tables that each hold a timestamp the other lacks and share two
C3_Witness ==
    /\ pc = "process"
    /\ OneRowPerPeriod(neso_df)
    /\ Timestamps(pivoted) \ Timestamps(neso_df) # {}
    /\ Timestamps(neso_df) \ Timestamps(pivoted) # {}
    /\ Cardinality(Timestamps(merged)) = 2

\* C4: the pivot has one row per timestamp of the fuel rows, the column
\* timestamp and one column per fuel type of the fuel rows; a cell is the mean
\* of the generation of the rows of its timestamp and fuel type, and 0 when
\* there is no such row.
C4_Pivot ==
    pc = "process" =>
        /\ Timestamps(pivoted) = Timestamps(fuelinst_df)
        /\ Len(pivoted.rows) = Cardinality(Timestamps(fuelinst_df))
        /\ pivoted.columns = {"timestamp"} \cup ColumnValues(fuelinst_df, "fuelType")
        /\ \A i \in DOMAIN pivoted.rows :
             /\ DOMAIN pivoted.rows[i] = pivoted.columns
             /\ \A f \in pivoted.columns \ {"timestamp"} :
                  LET idx == {k \in DOMAIN fuelinst_df.rows :
                                 /\ fuelinst_df.rows[k].timestamp = pivoted.rows[i].timestamp
                                 /\ fuelinst_df.rows[k].fuelType = f}
                      cell == pivoted.rows[i][f]
                  IN IF idx = {} THEN cell = 0
                     ELSE cell * Cardinality(idx) = SumOver(fuelinst_df, "generation", idx)

\* a pivot of several timestamps with a cell that averages several unequal
\* samples and a cell filled with 0
C4_Witness ==
    /\ pc = "process"
    /\ Len(pivoted.rows) >= 2
    /\ \E i \in DOMAIN pivoted.rows :
         /\ HoleFuel \in pivoted.columns
         /\ GroupRows(fuelinst_df, pivoted.rows[i].timestamp, HoleFuel) = {}
         /\ pivoted.rows[i][HoleFuel] = 0
    /\ \E i \in DOMAIN pivoted.rows :
         LET idx == GroupRows(fuelinst_df, pivoted.rows[i].timestamp, "WIND") IN
         /\ Cardinality(idx) >= 2
         /\ \A k \in idx : fuelinst_df.rows[k].generation # pivoted.rows[i].WIND

\* C5: in both fetched tables the timestamp of a row of settlement date D and
\* period P in 1..48 is D + (P - 1) * 30 minutes (D for period 1, D + 23 h 30 min
\* for period 48), and rows of the two tables with the same date and period have
\* the same timestamp.
C5_Timestamp ==
    /\ \A i \in DOMAIN fuelinst_df.rows :
         LET r == fuelinst_df.rows[i] IN
         r.settlementPeriod \in 1..48 =>
            /\ r.settlementDate % (24 * 60) = 0
            /\ r.timestamp = r.settlementDate + (r.settlementPeriod - 1) * 30
            /\ r.settlementPeriod = 1 => r.timestamp = r.settlementDate
            /\ r.settlementPeriod = 48 => r.timestamp = r.settlementDate + 23 * 60 + 30
    /\ \A j \in DOMAIN neso_df.rows :
         LET r == neso_df.rows[j] IN
         r.SETTLEMENT_PERIOD \in 1..48 =>
            /\ r.SETTLEMENT_DATE % (24 * 60) = 0
            /\ r.timestamp = r.SETTLEMENT_DATE + (r.SETTLEMENT_PERIOD - 1) * 30
            /\ r.SETTLEMENT_PERIOD = 1 => r.timestamp = r.SETTLEMENT_DATE
            /\ r.SETTLEMENT_PERIOD = 48 => r.timestamp = r.SETTLEMENT_DATE + 23 * 60 + 30
    /\ \A i \in DOMAIN fuelinst_df.rows, j \in DOMAIN neso_df.rows :
         (/\ fuelinst_df.rows[i].settlementDate = neso_df.rows[j].SETTLEMENT_DATE
          /\ fuelinst_df.rows[i].settlementPeriod = neso_df.rows[j].SETTLEMENT_PERIOD)
         => fuelinst_df.rows[i].timestamp = neso_df.rows[j].timestamp

\* both tables fetched, each with rows of period 1 and of period 48
C5_Witness ==
    /\ pc = "merge"
    /\ {1, 48} \subseteq ColumnValues(fuelinst_df, "settlementPeriod")
    /\ {1, 48} \subseteq ColumnValues(neso_df, "SETTLEMENT_PERIOD")

\* C6: process_merged, given a table that lacks one of the ten source columns,
\* raises the missing-column error (KeyError) and returns no table, whichever
\* column it is; the run ends there, the output file as it was.
C6_MissingColumn ==
    /\ [](pc = "process" =>
            \A c \in RequiredColumns :
                LET out == process_merged(DropColumn(merged, c)) IN
                out.error = "KeyError" /\ out.df = NoFrame)
    /\ [][(pc = "process" /\ ~(RequiredColumns \subseteq merged.columns)) =>
            /\ pc' = "failed"
            /\ error' = "KeyError"
            /\ merged' = merged
            /\ file' = file_before
            /\ ~(ENABLED Next)']_vars

\* a run that process_merged ended: the merged table has rows, and lacks a fuel
\* type that no fuel row of the window had
C6_Witness ==
    /\ pc = "failed"
    /\ error = "KeyError"
    /\ merged.rows # <<>>
    /\ \E c \in RequiredColumns : merged.columns \cap RequiredColumns = RequiredColumns \ {c}
    /\ file = file_before

\* C7: a run in which both fetches returned rows, the merged table has all ten
\* source columns and no timestamp is in both tables ends with an
\* EmptyJoinError, the output file as it was.
C7_EmptyJoinError ==
    (/\ pc \in {"done", "failed"}
     /\ fuelinst_df.rows # <<>>
     /\ neso_df.rows # <<>>
     /\ Timestamps(fuelinst_df) \cap Timestamps(neso_df) = {}
     /\ RequiredColumns \subseteq merged.columns)
    => /\ pc = "failed"
       /\ error = "EmptyJoinError"
       /\ file = file_before

\* C8: once both fetches have returned, fetch_neso_demand has filtered to the
\* window of fetch_bmrs_fuelinst: the same start and the same now, so that each
\* timestamp is inside both windows or outside both.
C8_SameWindow ==
    (pc \in Ran \cup {"merge"}) =>
        /\ neso_window = bmrs_window
        /\ \A s \in AllSlots :
             LET t == TimestampOf(ToDatetime(s[1]), s[2]) IN
             InWindow(t, bmrs_window) <=> InWindow(t, neso_window)

\* the errors of the transport: the remote source returned no data at all
TransportErrors == {"HTTPError", "JSONDecodeError", "URLError"}

\* C9: with hours = 0, a fetch that got an answer from its remote source
\* returns an empty table and raises no error.
C9_HoursZeroEmpty ==
    (hours = 0 /\ pc # "fetch_bmrs" /\ error \notin TransportErrors) =>
        /\ error = "none"
        /\ fuelinst_df.rows = <<>>
        /\ pc = "merge" => neso_df.rows = <<>>

\* the columns of the written table as the specification lists them
ListedColumns ==
    pivoted.columns
    \cup {"EMBEDDED_WIND_GENERATION", "EMBEDDED_SOLAR_GENERATION"}
    \cup AggregateColumns

\* C10 as stated: after a successful run the written table has the column
\* timestamp, the fuel-type columns of the pivot, the two embedded-generation
\* columns and the five aggregates, no other column, and one row per joined
\* settlement period.
C10_OutputColumns ==
    pc = "done" =>
        /\ file.exists
        /\ file.columns = ListedColumns
        /\ Len(file.rows) = Cardinality(Timestamps(pivoted) \cap Timestamps(neso_df))

\* C10 as amended: after a successful run the written table has the column
\* timestamp, the fuel-type columns of the pivot, SETTLEMENT_DATE,
\* SETTLEMENT_PERIOD, the two embedded-generation columns and the five
\* aggregates, no other column, and one row per demand row whose timestamp the
\* pivot has: one row per joined settlement period when the demand table has
\* one row per settlement period.
C10_OutputColumnsAmended ==
    pc = "done" =>
        /\ file.exists
        /\ file.columns = ListedColumns \cup {"SETTLEMENT_DATE", "SETTLEMENT_PERIOD"}
        /\ \A i \in DOMAIN file.rows : DOMAIN file.rows[i] = file.columns
        /\ Len(file.rows) =
              Cardinality({j \in DOMAIN neso_df.rows :
                              neso_df.rows[j].timestamp \in Timestamps(pivoted)})
        /\ OneRowPerPeriod(neso_df) =>
              Len(file.rows) = Cardinality(Timestamps(pivoted) \cap Timestamps(neso_df))

\* a successful run that wrote several rows, with a fuel type beyond the eight
\* that process_merged reads
C10_Witness ==
    /\ pc = "done"
    /\ file.exists
    /\ Len(file.rows) >= 2
    /\ "INTFR" \in file.columns

====
